---- MODULE Spec2Model ----
(***************************************************************************)
(* Model of the JoystickAnalog class                                       *)
(* (src/src/assets/js/joystickAnalogControls.js).                          *)
(*                                                                         *)
(* Numbers: the class computes in IEEE-754 doubles.  The model computes in *)
(* fixed point, one unit being one CSS pixel and also the least step a     *)
(* coordinate can take; a result that is not representable is rounded to   *)
(* the nearest unit, as floating point arithmetic does at its own          *)
(* resolution.  Ratios (directionX, directionY) are kept exact as          *)
(* numerator/denominator pairs.                                            *)
(*                                                                         *)
(* Besides the fields of the object, the state records what an observer of *)
(* the page sees of the most recent event: the event itself, the arguments *)
(* of the simulateKeypress call it made and the calls that went out.       *)
(***************************************************************************)
EXTENDS Integers, Sequences, FiniteSets, TLC

VARIABLES
    options,      \* the constructor's options (which callables are supplied)
    dragging,     \* this.dragging
    handle,       \* this.handle.style: [left, top], each a CSS length
    cursor,       \* this.joystick.style.cursor
    e,            \* the most recent event delivered to a listener, with the
                  \* coordinates the listener read from it
    direction,    \* arguments of the simulateKeypress call of that event
    calls,        \* calls made while handling that event, in order
    active,       \* direction of the most recently emitted signal
    streak,       \* how many times in a row that signal has been emitted
    second        \* a second JoystickAnalog instance on the page, if any

vars ==
    <<options, dragging, handle, cursor, e, direction, calls, active, streak,
      second>>

----------------------------------------------------------------------------
(* Bounds of the model *)

\* pointer coordinates lie within MaxOffset of the track center
MaxOffset == 200
\* spacing of the regular grid of pointer coordinates
GridStep == 100
\* number of simultaneous touch points of a touch event
MaxTouches == 2
\* consecutive emissions of one signal are counted up to MaxStreak
MaxStreak == 2

----------------------------------------------------------------------------
(* The page *)

\* width of the #joystick element (README: #joystick { width: 200px })
offsetWidth == 200

\* this.joystickRadius = this.joystick.offsetWidth / 2
joystickRadius == offsetWidth \div 2

\* this.joystick.getBoundingClientRect(): where the track sits in the viewport
rect == [left |-> 8, top |-> 8]

\* the threshold literal 0.2 of simulateKeypress, as the ratio 2/10
ThresholdNum == 2
ThresholdDen == 10

Abs(n) == IF n < 0 THEN 0 - n ELSE n

\* coordinates relative to the track's top-left corner that the pointer takes:
\* a regular grid plus the center, points at and next to the thresholds, on
\* the boundary and outside the track
Samples == {50, 79, 80, 100, 120, 130, 150, 200, 300}

RawCoords ==
    {c \in (joystickRadius - MaxOffset)..(joystickRadius + MaxOffset) :
        c % GridStep = 0 \/ c \in Samples}

\* clientX / clientY values of pointer events
ClientXs == {c + rect.left : c \in RawCoords}
ClientYs == {c + rect.top : c \in RawCoords}

\* a further finger resting on the page during a touch event
ExtraTouch == [clientX |-> rect.left, clientY |-> rect.top]

\* e.touches of a touch event with n touch points, the first one at (cx, cy)
Touches(cx, cy, n) ==
    [i \in 1..n |-> IF i = 1 THEN [clientX |-> cx, clientY |-> cy] ELSE ExtraTouch]

----------------------------------------------------------------------------
(* CSS lengths *)

\* x + 'px'
Px(n) == [n |-> n, unit |-> "px"]

\* '50%'
FiftyPercent == [n |-> 50, unit |-> "%"]

\* used value of a left/top length: a percentage refers to the width of the
\* track, which is the handle's containing block
UsedPx(len) == IF len.unit = "%" THEN (len.n * offsetWidth) \div 100 ELSE len.n

\* displacement of the handle from the track center (radius, radius)
centerOffset ==
    [x |-> UsedPx(handle.left) - joystickRadius,
     y |-> UsedPx(handle.top) - joystickRadius]

----------------------------------------------------------------------------
(* Arithmetic of handlePosition *)

\* the largest q in lo..hi with q = 0 or (2q-1)^2 * D <= N, by bisection;
\* the product with D is compared through a quotient to stay within 32 bits
RECURSIVE LargestHalfStep(_, _, _, _)
LargestHalfStep(lo, hi, D, N) ==
    IF lo = hi THEN lo
    ELSE LET mid == (lo + hi + 1) \div 2
         IN  IF D <= N \div ((2 * mid - 1) * (2 * mid - 1))
             THEN LargestHalfStep(mid, hi, D, N)
             ELSE LargestHalfStep(lo, mid - 1, D, N)

\* radius * a / sqrt(a^2 + b^2) for a >= 0 and (a, b) # (0, 0), rounded to
\* the nearest unit: the q with q - 1/2 <= radius * a / sqrt(D) < q + 1/2,
\* that is (2q-1)^2 * D <= 4 * (radius * a)^2 < (2q+1)^2 * D, D = a^2 + b^2
ProjectAbs(a, b) ==
    LargestHalfStep(0, joystickRadius, a * a + b * b,
                    4 * (joystickRadius * a) * (joystickRadius * a))

\* the cosine taken of the angle of (|dx|, dy): the sign of dx is lost
CosTimesRadius_Unsigned(dx, dy) ==
    IF dx = 0 /\ dy = 0 THEN joystickRadius ELSE ProjectAbs(Abs(dx), dy)

\* Math.cos(angle) * this.joystickRadius, angle = Math.atan2(dy, dx);
\* Math.atan2(0, 0) is 0
CosTimesRadius(dx, dy) ==
    IF dx = 0 /\ dy = 0 THEN joystickRadius
    ELSE IF dx < 0 THEN 0 - ProjectAbs(0 - dx, dy) ELSE ProjectAbs(dx, dy)

\* Math.sin(angle) * this.joystickRadius, angle = Math.atan2(dy, dx)
SinTimesRadius(dx, dy) ==
    IF dx = 0 /\ dy = 0 THEN 0
    ELSE IF dy < 0 THEN 0 - ProjectAbs(0 - dy, dx) ELSE ProjectAbs(dy, dx)

\* the distance taken from the track's corner instead of its center
WithinTrack_FromCorner(x, y) ==
    x * x + y * y <= joystickRadius * joystickRadius

\* distance <= this.joystickRadius
WithinTrack(x, y) ==
    (x - joystickRadius) * (x - joystickRadius)
        + (y - joystickRadius) * (y - joystickRadius)
    <= joystickRadius * joystickRadius

\* the handle follows the pointer without clamping
HandleStyle_Unclamped(x, y) == [left |-> Px(x), top |-> Px(y)]

\* the style handlePosition(x, y) gives the handle
HandleStyle(x, y) ==
    IF WithinTrack(x, y)
    THEN [left |-> Px(x), top |-> Px(y)]
    ELSE [left |-> Px(CosTimesRadius(x - joystickRadius, y - joystickRadius)
                        + joystickRadius),
          top  |-> Px(SinTimesRadius(x - joystickRadius, y - joystickRadius)
                        + joystickRadius)]

\* a ratio num / den, den > 0
Ratio(num, den) == [num |-> num, den |-> den]

\* the (directionX, directionY) handlePosition(x, y) passes to simulateKeypress
DirectionArgs(x, y) ==
    [X |-> Ratio(x - joystickRadius, joystickRadius),
     Y |-> Ratio(y - joystickRadius, joystickRadius)]

\* r <= -0.2
BelowNegThreshold_Inclusive(r) ==
    r.num * ThresholdDen <= 0 - ThresholdNum * r.den

\* r < -0.2
BelowNegThreshold(r) == r.num * ThresholdDen < 0 - ThresholdNum * r.den

\* r > 0.2
AboveThreshold(r) == r.num * ThresholdDen > ThresholdNum * r.den

\* no simulateKeypress call was made
NoDirection == [X |-> Ratio(0, 1), Y |-> Ratio(0, 1), called |-> FALSE]

Called(d) == [X |-> d.X, Y |-> d.Y, called |-> TRUE]

----------------------------------------------------------------------------
(* Signals *)

Directions == {"up", "down", "left", "right"}

Call(fn, arg) == [fn |-> fn, arg |-> arg]

\* key and keyCode of the KeyboardEvent pressKey builds for a key
KeyEventOf(key) ==
    CASE key = "up"    -> <<"keydown", "ArrowUp", "38">>
      [] key = "down"  -> <<"keydown", "ArrowDown", "40">>
      [] key = "left"  -> <<"keydown", "ArrowLeft", "37">>
      [] key = "right" -> <<"keydown", "ArrowRight", "39">>
      [] OTHER         -> <<>>

\* the fallback key-down dispatched also when a pressKeyFunction is supplied
pressKey_AlsoDispatches(key) ==
    <<Call("pressKey", <<key>>)>>
    \o (IF options.enableDebug
        THEN <<Call("console.log", <<"Pressing the key: ", key>>)>> ELSE <<>>)
    \o (IF options.beforePressKey
        THEN <<Call("beforePressKey", <<key>>)>> ELSE <<>>)
    \o (IF options.pressKeyFunction
        THEN <<Call("pressKeyFunction", <<key>>)>> ELSE <<>>)
    \o (IF KeyEventOf(key) # <<>>
        THEN <<Call("document.dispatchEvent", KeyEventOf(key))>> ELSE <<>>)
    \o (IF options.afterPressKey
        THEN <<Call("afterPressKey", <<key>>)>> ELSE <<>>)

\* the calls pressKey(key) makes, in order
pressKey(key) ==
    <<Call("pressKey", <<key>>)>>
    \o (IF options.enableDebug
        THEN <<Call("console.log", <<"Pressing the key: ", key>>)>> ELSE <<>>)
    \o (IF options.beforePressKey
        THEN <<Call("beforePressKey", <<key>>)>> ELSE <<>>)
    \o (IF options.pressKeyFunction
        THEN <<Call("pressKeyFunction", <<key>>)>>
        ELSE IF KeyEventOf(key) # <<>>
             THEN <<Call("document.dispatchEvent", KeyEventOf(key))>>
             ELSE <<>>)
    \o (IF options.afterPressKey
        THEN <<Call("afterPressKey", <<key>>)>> ELSE <<>>)

\* a release that falls back to dispatching a key-up
releaseKeys_DispatchesKeyUp ==
    <<Call("releaseKeys", <<>>)>>
    \o (IF options.enableDebug
        THEN <<Call("console.log", <<"Releasing all keys">>)>> ELSE <<>>)
    \o (IF options.beforeReleaseKeys
        THEN <<Call("beforeReleaseKeys", <<>>)>> ELSE <<>>)
    \o (IF options.releaseKeysFunction
        THEN <<Call("releaseKeysFunction", <<>>)>>
        ELSE <<Call("document.dispatchEvent", <<"keyup", "", "">>)>>)
    \o (IF options.afterReleaseKeys
        THEN <<Call("afterReleaseKeys", <<>>)>> ELSE <<>>)

\* a release that logs whether or not enableDebug is set
releaseKeys_AlwaysLogs ==
    <<Call("releaseKeys", <<>>)>>
    \o <<Call("console.log", <<"Releasing all keys">>)>>
    \o (IF options.beforeReleaseKeys
        THEN <<Call("beforeReleaseKeys", <<>>)>> ELSE <<>>)
    \o (IF options.releaseKeysFunction
        THEN <<Call("releaseKeysFunction", <<>>)>> ELSE <<>>)
    \o (IF options.afterReleaseKeys
        THEN <<Call("afterReleaseKeys", <<>>)>> ELSE <<>>)

\* the calls releaseKeys() makes, in order
releaseKeys ==
    <<Call("releaseKeys", <<>>)>>
    \o (IF options.enableDebug
        THEN <<Call("console.log", <<"Releasing all keys">>)>> ELSE <<>>)
    \o (IF options.beforeReleaseKeys
        THEN <<Call("beforeReleaseKeys", <<>>)>> ELSE <<>>)
    \o (IF options.releaseKeysFunction
        THEN <<Call("releaseKeysFunction", <<>>)>> ELSE <<>>)
    \o (IF options.afterReleaseKeys
        THEN <<Call("afterReleaseKeys", <<>>)>> ELSE <<>>)

\* the horizontal tests made before the vertical ones
simulateKeypress_HorizontalFirst(directionX, directionY) ==
    IF BelowNegThreshold(directionX) THEN "left"
    ELSE IF AboveThreshold(directionX) THEN "right"
    ELSE IF BelowNegThreshold(directionY) THEN "up"
    ELSE IF AboveThreshold(directionY) THEN "down"
    ELSE "none"

\* the signal simulateKeypress(directionX, directionY) emits:
\* a direction to press, or "none" to release
simulateKeypress(directionX, directionY) ==
    LET keyUp    == BelowNegThreshold(directionY)
        keyDown  == AboveThreshold(directionY)
        keyLeft  == BelowNegThreshold(directionX)
        keyRight == AboveThreshold(directionX)
    IN  IF keyUp THEN "up"
        ELSE IF keyDown THEN "down"
        ELSE IF keyLeft THEN "left"
        ELSE IF keyRight THEN "right"
        ELSE "none"

\* the calls that emit a signal
Emit(signal) == IF signal = "none" THEN releaseKeys ELSE pressKey(signal)

----------------------------------------------------------------------------
(* Construction *)

NoOptions ==
    [parentElement |-> "#joystick-container",
     pressKeyFunction |-> FALSE, releaseKeysFunction |-> FALSE,
     beforePressKey |-> FALSE, afterPressKey |-> FALSE,
     beforeReleaseKeys |-> FALSE, afterReleaseKeys |-> FALSE,
     enableDebug |-> FALSE]

\* the options of the README's example
ReadmeOptions ==
    [NoOptions EXCEPT !.pressKeyFunction = TRUE, !.releaseKeysFunction = TRUE,
                      !.enableDebug = TRUE]

AllOptions ==
    [parentElement |-> "#joystick-container",
     pressKeyFunction |-> TRUE, releaseKeysFunction |-> TRUE,
     beforePressKey |-> TRUE, afterPressKey |-> TRUE,
     beforeReleaseKeys |-> TRUE, afterReleaseKeys |-> TRUE,
     enableDebug |-> TRUE]

\* the four hooks without a custom press or release function
HookOptions ==
    [NoOptions EXCEPT !.beforePressKey = TRUE, !.afterPressKey = TRUE,
                      !.beforeReleaseKeys = TRUE, !.afterReleaseKeys = TRUE]

\* a parentElement selector that matches nothing on the page
MissingParentOptions == [ReadmeOptions EXCEPT !.parentElement = "#missing"]

OptionSets ==
    {NoOptions, ReadmeOptions, AllOptions, HookOptions, MissingParentOptions}

\* the selectors that match an element of the page
\* (README: <div id="joystick-container">)
PageSelectors == {"#joystick-container"}

\* document.querySelector(selector): the element, or null
querySelector(selector) ==
    IF selector \in PageSelectors THEN selector ELSE "null"

\* this.parentElement
parentElement == querySelector(options.parentElement)

\* what the constructor throws: this.parentElement.appendChild(...) on null
thrown == IF parentElement = "null" THEN "TypeError" ELSE ""

\* the event types the constructor registers a listener for
ListenerTypes ==
    {"mousedown", "touchstart", "mouseup", "touchend", "mousemove",
     "touchmove", "mouseenter", "mouseleave"}

\* the event types a pointer produces on the page
EventTypes == ListenerTypes \cup {"touchcancel"}

\* the listeners registered although the constructor threw before them
listeners_BeforeMount == ListenerTypes

\* the listeners this instance has registered: the addEventListener calls
\* come after the appendChild that throws
listeners == IF thrown = "" THEN ListenerTypes ELSE {}

Event(type, cx, cy) == [type |-> type, clientX |-> cx, clientY |-> cy]

\* no second joystick on the page
NoSecond ==
    [present |-> FALSE, dragging |-> FALSE,
     handle |-> [left |-> FiftyPercent, top |-> FiftyPercent],
     cursor |-> "", calls |-> <<>>, active |-> "none"]

\* a second joystick, constructed with the same options
NewSecond == [NoSecond EXCEPT !.present = TRUE]

\* the state after new JoystickAnalog(options); the stylesheet centers the
\* handle (#handle { top: 50%; left: 50% })
Init ==
    /\ options \in OptionSets
    /\ dragging = FALSE
    /\ handle = [left |-> FiftyPercent, top |-> FiftyPercent]
    /\ cursor = ""
    /\ e = Event("construct", 0, 0)
    /\ direction = NoDirection
    /\ calls = <<>>
    /\ active = "none"
    /\ streak = 0
    /\ second = NoSecond

----------------------------------------------------------------------------
(* A second instance on the same page *)

\* getBoundingClientRect() of the second joystick's track
rect2 == [left |-> 8, top |-> 208]

\* the second instance s after handleMouseUp / handleTouchEnd
SecondRelease(s) ==
    [s EXCEPT !.dragging = FALSE,
              !.handle = [left |-> FiftyPercent, top |-> FiftyPercent],
              !.calls = releaseKeys,
              !.active = "none"]

\* the second instance s after handleMouseMove / handleTouchMove
SecondMove(s, cx, cy, after) ==
    IF s.dragging
    THEN LET x == cx - rect2.left
             y == cy - rect2.top
             d == DirectionArgs(x, y)
             signal == simulateKeypress(d.X, d.Y)
         IN  [s EXCEPT !.handle = HandleStyle(x, y),
                       !.calls = Emit(signal) \o after,
                       !.active = signal]
    ELSE [s EXCEPT !.calls = <<>>]

\* a mouse-up that reaches the second instance only when it is dragging
Deliver_OnlyToDragging(s, type, cx, cy) ==
    IF ~s.present THEN s
    ELSE IF type \in {"mouseup", "touchend"}
         THEN (IF s.dragging THEN SecondRelease(s) ELSE [s EXCEPT !.calls = <<>>])
    ELSE IF type = "mousemove" THEN SecondMove(s, cx, cy, <<>>)
    ELSE IF type = "touchmove"
         THEN SecondMove(s, cx, cy, <<Call("preventDefault", <<>>)>>)
    ELSE [s EXCEPT !.calls = <<>>]

\* the second instance s after an event of the first instance's page: its
\* document-level listeners (mouseup, touchend, mousemove, touchmove) run for
\* every such event, its element-level listeners for none of them
Deliver(s, type, cx, cy) ==
    IF ~s.present THEN s
    ELSE IF type \in {"mouseup", "touchend"} THEN SecondRelease(s)
    ELSE IF type = "mousemove" THEN SecondMove(s, cx, cy, <<>>)
    ELSE IF type = "touchmove"
         THEN SecondMove(s, cx, cy, <<Call("preventDefault", <<>>)>>)
    ELSE [s EXCEPT !.calls = <<>>]

----------------------------------------------------------------------------
(* Event listeners *)

Min(a, b) == IF a < b THEN a ELSE b

\* the number of consecutive emissions of the same signal, once this one is
\* emitted
NextStreak(signal) ==
    IF signal = active /\ streak > 0 THEN Min(streak + 1, MaxStreak) ELSE 1

handleMouseDown ==
    /\ dragging' = TRUE
    /\ e' = Event("mousedown", 0, 0)
    /\ direction' = NoDirection
    /\ calls' = <<>>
    /\ second' = Deliver(second, "mousedown", 0, 0)
    /\ UNCHANGED <<options, handle, cursor, active, streak>>

handleTouchStart ==
    /\ dragging' = TRUE
    /\ e' = Event("touchstart", 0, 0)
    /\ direction' = NoDirection
    /\ calls' = <<Call("preventDefault", <<>>)>>
    /\ second' = Deliver(second, "touchstart", 0, 0)
    /\ UNCHANGED <<options, handle, cursor, active, streak>>

\* the release that leaves this.dragging as it is
Release_KeepDragging(type) ==
    /\ handle' = [left |-> FiftyPercent, top |-> FiftyPercent]
    /\ e' = Event(type, 0, 0)
    /\ direction' = NoDirection
    /\ calls' = releaseKeys
    /\ active' = "none"
    /\ streak' = NextStreak("none")
    /\ second' = Deliver(second, type, 0, 0)
    /\ UNCHANGED <<options, dragging, cursor>>

\* the release that leaves the handle where it is
Release_KeepHandle(type) ==
    /\ dragging' = FALSE
    /\ e' = Event(type, 0, 0)
    /\ direction' = NoDirection
    /\ calls' = releaseKeys
    /\ active' = "none"
    /\ streak' = NextStreak("none")
    /\ second' = Deliver(second, type, 0, 0)
    /\ UNCHANGED <<options, handle, cursor>>

\* the release that does not call releaseKeys()
Release_NoSignal(type) ==
    /\ dragging' = FALSE
    /\ handle' = [left |-> FiftyPercent, top |-> FiftyPercent]
    /\ e' = Event(type, 0, 0)
    /\ direction' = NoDirection
    /\ calls' = <<>>
    /\ second' = Deliver(second, type, 0, 0)
    /\ UNCHANGED <<options, cursor, active, streak>>

\* the body shared by handleMouseUp and handleTouchEnd
Release(type) ==
    /\ dragging' = FALSE
    /\ handle' = [left |-> FiftyPercent, top |-> FiftyPercent]
    /\ e' = Event(type, 0, 0)
    /\ direction' = NoDirection
    /\ calls' = releaseKeys
    /\ active' = "none"
    /\ streak' = NextStreak("none")
    /\ second' = Deliver(second, type, 0, 0)
    /\ UNCHANGED <<options, cursor>>

handleMouseUp == Release("mouseup")

\* the touch-end that leaves this.dragging set
handleTouchEnd_KeepDragging == Release_KeepDragging("touchend")

handleTouchEnd == Release("touchend")

\* the direction taken from the clamped handle position
handlePosition_FromHandle(x, y, after) ==
    LET style == HandleStyle(x, y)
        d == DirectionArgs(style.left.n, style.top.n)
        signal == simulateKeypress(d.X, d.Y)
    IN  /\ handle' = style
        /\ direction' = Called(d)
        /\ calls' = Emit(signal) \o after
        /\ active' = signal
        /\ streak' = NextStreak(signal)

\* a signal emitted only when it differs from the active one
handlePosition_OnChange(x, y, after) ==
    LET d == DirectionArgs(x, y)
        signal == simulateKeypress(d.X, d.Y)
    IN  /\ handle' = HandleStyle(x, y)
        /\ direction' = Called(d)
        /\ calls' = (IF signal = active THEN <<>> ELSE Emit(signal)) \o after
        /\ active' = signal
        /\ streak' = IF signal = active THEN streak ELSE 1

\* handlePosition(x, y), with the calls to make after those of the signal
handlePosition(x, y, after) ==
    LET d == DirectionArgs(x, y)
        signal == simulateKeypress(d.X, d.Y)
    IN  /\ handle' = HandleStyle(x, y)
        /\ direction' = Called(d)
        /\ calls' = Emit(signal) \o after
        /\ active' = signal
        /\ streak' = NextStreak(signal)

\* an event the listener ignores
Ignore ==
    /\ direction' = NoDirection
    /\ calls' = <<>>
    /\ UNCHANGED <<handle, active, streak>>

\* handleMouseMove for the event at (cx, cy)
MouseMoveAt(cx, cy) ==
    /\ IF dragging
       THEN /\ e' = Event("mousemove", cx, cy)
            /\ handlePosition(cx - rect.left, cy - rect.top, <<>>)
       ELSE /\ e' = Event("mousemove", 0, 0)
            /\ Ignore
    /\ second' = Deliver(second, "mousemove", cx, cy)
    /\ UNCHANGED <<options, dragging, cursor>>

\* handleTouchMove for the event whose n touches start with one at (cx, cy)
TouchMoveAt(cx, cy, n) ==
    LET touches == Touches(cx, cy, n)
    IN  /\ IF dragging
           THEN /\ e' = Event("touchmove", touches[1].clientX,
                              touches[1].clientY)
                /\ handlePosition(touches[1].clientX - rect.left,
                                  touches[1].clientY - rect.top,
                                  <<Call("preventDefault", <<>>)>>)
           ELSE /\ e' = Event("touchmove", 0, 0)
                /\ Ignore
        /\ second' = Deliver(second, "touchmove", touches[1].clientX,
                             touches[1].clientY)
        /\ UNCHANGED <<options, dragging, cursor>>

\* the move handled whether dragging or not
handleMouseMove_Unguarded ==
    \E cx \in ClientXs, cy \in ClientYs :
        /\ e' = Event("mousemove", cx, cy)
        /\ handlePosition(cx - rect.left, cy - rect.top, <<>>)
        /\ second' = Deliver(second, "mousemove", cx, cy)
        /\ UNCHANGED <<options, dragging, cursor>>

handleMouseMove ==
    \E cx \in ClientXs, cy \in ClientYs : MouseMoveAt(cx, cy)

\* the touch-move handled whether dragging or not
handleTouchMove_Unguarded ==
    \E cx \in ClientXs, cy \in ClientYs :
        /\ e' = Event("touchmove", cx, cy)
        /\ handlePosition(cx - rect.left, cy - rect.top,
                          <<Call("preventDefault", <<>>)>>)
        /\ second' = Deliver(second, "touchmove", cx, cy)
        /\ UNCHANGED <<options, dragging, cursor>>

handleTouchMove ==
    \E cx \in ClientXs, cy \in ClientYs, n \in 1..MaxTouches :
        TouchMoveAt(cx, cy, n)

handleMouseEnter ==
    /\ cursor' = "move"
    /\ e' = Event("mouseenter", 0, 0)
    /\ direction' = NoDirection
    /\ calls' = <<>>
    /\ second' = Deliver(second, "mouseenter", 0, 0)
    /\ UNCHANGED <<options, dragging, handle, active, streak>>

\* the leave that resets whether dragging or not
handleMouseLeave_Unconditional ==
    /\ e' = Event("mouseleave", 0, 0)
    /\ direction' = NoDirection
    /\ handle' = [left |-> FiftyPercent, top |-> FiftyPercent]
    /\ calls' = releaseKeys
    /\ active' = "none"
    /\ streak' = NextStreak("none")
    /\ second' = Deliver(second, "mouseleave", 0, 0)
    /\ UNCHANGED <<options, dragging, cursor>>

handleMouseLeave ==
    /\ e' = Event("mouseleave", 0, 0)
    /\ direction' = NoDirection
    /\ IF ~dragging
       THEN /\ handle' = [left |-> FiftyPercent, top |-> FiftyPercent]
            /\ calls' = releaseKeys
            /\ active' = "none"
            /\ streak' = NextStreak("none")
       ELSE /\ calls' = <<>>
            /\ UNCHANGED <<handle, active, streak>>
    /\ second' = Deliver(second, "mouseleave", 0, 0)
    /\ UNCHANGED <<options, dragging, cursor>>

\* an event of a type this instance has no listener for: no handler runs
Unheard(type) ==
    /\ e' = Event(type, 0, 0)
    /\ direction' = NoDirection
    /\ calls' = <<>>
    /\ second' = Deliver(second, type, 0, 0)
    /\ UNCHANGED <<options, dragging, handle, cursor, active, streak>>

\* the events of a page whose script has run: each goes to the listener
\* registered for its type, if any
Next ==
    \/ "mousedown" \in listeners /\ handleMouseDown
    \/ "touchstart" \in listeners /\ handleTouchStart
    \/ "mouseup" \in listeners /\ handleMouseUp
    \/ "touchend" \in listeners /\ handleTouchEnd
    \/ "mousemove" \in listeners /\ handleMouseMove
    \/ "touchmove" \in listeners /\ handleTouchMove
    \/ "mouseenter" \in listeners /\ handleMouseEnter
    \/ "mouseleave" \in listeners /\ handleMouseLeave
    \/ \E type \in EventTypes \ listeners : thrown = "" /\ Unheard(type)

Spec == Init /\ [][Next]_vars

----------------------------------------------------------------------------
(* Two instances on one page *)

\* the pointer coordinates taken when two joysticks share the page
PairSamples == {79, 100, 300}

PairClientXs == {c + rect.left : c \in PairSamples}
PairClientYs == {c + rect.top : c \in PairSamples}

\* an event on an element of the second instance: the first instance has no
\* listener there
OnSecond(type) ==
    /\ second.present
    /\ e' = Event(type, 0, 0)
    /\ direction' = NoDirection
    /\ calls' = <<>>
    /\ UNCHANGED <<options, dragging, handle, cursor, active, streak>>

\* handleMouseDown of the second instance
secondMouseDown ==
    /\ OnSecond("second:mousedown")
    /\ second' = [second EXCEPT !.dragging = TRUE, !.calls = <<>>]

\* handleTouchStart of the second instance
secondTouchStart ==
    /\ OnSecond("second:touchstart")
    /\ second' = [second EXCEPT !.dragging = TRUE,
                                !.calls = <<Call("preventDefault", <<>>)>>]

\* handleMouseEnter of the second instance
secondMouseEnter ==
    /\ OnSecond("second:mouseenter")
    /\ second' = [second EXCEPT !.cursor = "move", !.calls = <<>>]

\* handleMouseLeave of the second instance
secondMouseLeave ==
    /\ OnSecond("second:mouseleave")
    /\ second' = IF ~second.dragging
                 THEN [second EXCEPT
                         !.handle = [left |-> FiftyPercent, top |-> FiftyPercent],
                         !.calls = releaseKeys,
                         !.active = "none"]
                 ELSE [second EXCEPT !.calls = <<>>]

pairMouseMove ==
    \E cx \in PairClientXs, cy \in PairClientYs : MouseMoveAt(cx, cy)

pairTouchMove ==
    \E cx \in PairClientXs, cy \in PairClientYs, n \in 1..MaxTouches :
        TouchMoveAt(cx, cy, n)

\* the state after two new JoystickAnalog(options)
InitTwo ==
    /\ options \in {NoOptions, ReadmeOptions}
    /\ dragging = FALSE
    /\ handle = [left |-> FiftyPercent, top |-> FiftyPercent]
    /\ cursor = ""
    /\ e = Event("construct", 0, 0)
    /\ direction = NoDirection
    /\ calls = <<>>
    /\ active = "none"
    /\ streak = 0
    /\ second = NewSecond

NextTwo ==
    \/ "mousedown" \in listeners /\ handleMouseDown
    \/ "touchstart" \in listeners /\ handleTouchStart
    \/ "mouseup" \in listeners /\ handleMouseUp
    \/ "touchend" \in listeners /\ handleTouchEnd
    \/ "mousemove" \in listeners /\ pairMouseMove
    \/ "touchmove" \in listeners /\ pairTouchMove
    \/ "mouseenter" \in listeners /\ handleMouseEnter
    \/ "mouseleave" \in listeners /\ handleMouseLeave
    \/ \E type \in EventTypes \ listeners : thrown = "" /\ Unheard(type)
    \/ secondMouseDown
    \/ secondTouchStart
    \/ secondMouseEnter
    \/ secondMouseLeave

SpecTwo == InitTwo /\ [][NextTwo]_vars

\* one instance, the pointer moving over the points of PairSamples only
NextSampled ==
    \/ "mousedown" \in listeners /\ handleMouseDown
    \/ "touchstart" \in listeners /\ handleTouchStart
    \/ "mouseup" \in listeners /\ handleMouseUp
    \/ "touchend" \in listeners /\ handleTouchEnd
    \/ "mousemove" \in listeners /\ pairMouseMove
    \/ "touchmove" \in listeners /\ pairTouchMove
    \/ "mouseenter" \in listeners /\ handleMouseEnter
    \/ "mouseleave" \in listeners /\ handleMouseLeave
    \/ \E type \in EventTypes \ listeners : thrown = "" /\ Unheard(type)

SpecSampled == Init /\ [][NextSampled]_vars

----------------------------------------------------------------------------
(* Types *)

TypeOK ==
    /\ options \in OptionSets
    /\ dragging \in BOOLEAN
    /\ cursor \in {"", "move"}
    /\ active \in Directions \cup {"none"}
    /\ streak \in 0..MaxStreak
    /\ second.present \in BOOLEAN
    /\ second.dragging \in BOOLEAN

----------------------------------------------------------------------------
(* What the properties observe *)

MoveTypes == {"mousemove", "touchmove"}

\* the most recent event was a move that reached handlePosition
Moved == e.type \in MoveTypes /\ direction.called

\* the (x, y) of that move, relative to the track's top-left corner
RawX == e.clientX - rect.left
RawY == e.clientY - rect.top

\* squared distance of (x, y) from the track center
DistSq(x, y) ==
    (x - joystickRadius) * (x - joystickRadius)
        + (y - joystickRadius) * (y - joystickRadius)

RadiusSq == joystickRadius * joystickRadius

\* the signals among a handler's calls: a press of a key or a release
SignalsIn(cs) == SelectSeq(cs, LAMBDA c : c.fn \in {"pressKey", "releaseKeys"})

PressOf(key) == Call("pressKey", <<key>>)
TheRelease == Call("releaseKeys", <<>>)

\* the handler emitted exactly this one signal
EmittedOnly(sig) == SignalsIn(calls) = <<sig>>

\* a ratio compared with the ratio n/d, d > 0
Lt(r, n, d) == r.num * d < n * r.den
Gt(r, n, d) == r.num * d > n * r.den
Eq(r, n, d) == r.num * d = n * r.den

AtCenter == centerOffset = [x |-> 0, y |-> 0]

----------------------------------------------------------------------------
(* Properties *)

C2_DirectionMapping ==
    Moved =>
        LET dX == direction.X
            dY == direction.Y
        IN  /\ Len(SignalsIn(calls)) = 1
            /\ Lt(dY, -2, 10) => EmittedOnly(PressOf("up"))
            /\ Gt(dY, 2, 10) => EmittedOnly(PressOf("down"))
            /\ (~Lt(dY, -2, 10) /\ ~Gt(dY, 2, 10) /\ Lt(dX, -2, 10))
                 => EmittedOnly(PressOf("left"))
            /\ (~Lt(dY, -2, 10) /\ ~Gt(dY, 2, 10) /\ ~Lt(dX, -2, 10)
                  /\ Gt(dX, 2, 10))
                 => EmittedOnly(PressOf("right"))
            /\ (~Lt(dY, -2, 10) /\ ~Gt(dY, 2, 10) /\ ~Lt(dX, -2, 10)
                  /\ ~Gt(dX, 2, 10))
                 => EmittedOnly(TheRelease)

\* directionY = -0.5 with directionX = 0.5 has emitted up
C2_Witness ==
    /\ Moved
    /\ Eq(direction.Y, -1, 2)
    /\ Eq(direction.X, 1, 2)
    /\ EmittedOnly(PressOf("up"))

\* C3: after a mouse-up or touch-end, and after a mouse-leave that arrived
\* while not dragging, the handle is at the exact center, dragging is false
\* and a release was emitted, which calls the releaseKeysFunction supplied.
C3_ReleaseResets ==
    (e.type \in {"mouseup", "touchend"} \/ (e.type = "mouseleave" /\ ~dragging))
        => /\ ~dragging
           /\ handle = [left |-> FiftyPercent, top |-> FiftyPercent]
           /\ AtCenter
           /\ EmittedOnly(TheRelease)
           /\ options.releaseKeysFunction
                => \E i \in 1..Len(calls) : calls[i].fn = "releaseKeysFunction"

\* a mouse-up has called the releaseKeysFunction
C3_Witness ==
    /\ e.type = "mouseup"
    /\ ~dragging
    /\ AtCenter
    /\ \E i \in 1..Len(calls) : calls[i].fn = "releaseKeysFunction"

\* C4: in every reachable state, dragging = false implies that the handle is
\* at the track center.
C4_IdleIsCentered == ~dragging => AtCenter

\* a drag was ended by a touch-end
C4_Witness == ~dragging /\ e.type = "touchend" /\ AtCenter

\* C5: a mouse-move or touch-move that arrives while dragging is false
\* changes neither the handle nor the dragging flag and emits no signal.
C5_MoveWhileIdleIsNoOp ==
    [][(e'.type \in MoveTypes /\ ~dragging)
         => /\ handle' = handle
            /\ dragging' = dragging
            /\ active' = active
            /\ ~direction'.called
            /\ SignalsIn(calls') = <<>>]_vars

\* a move arrived while not dragging
C5_Witness == e.type \in MoveTypes /\ ~dragging /\ calls = <<>>

\* C6: a mouse-leave that arrives while dragging is true changes neither the
\* handle nor the dragging flag and emits no signal, and the move that
\* follows it still reaches handlePosition and places the handle.
C6_LeaveWhileDraggingKeeps ==
    [][/\ (e'.type = "mouseleave" /\ dragging)
          => /\ handle' = handle
             /\ dragging'
             /\ active' = active
             /\ SignalsIn(calls') = <<>>
       /\ (e.type = "mouseleave" /\ dragging /\ e'.type \in MoveTypes)
          => /\ direction'.called
             /\ Len(SignalsIn(calls')) = 1
             /\ DistSq(e'.clientX - rect.left, e'.clientY - rect.top) <= RadiusSq
                  => handle' = [left |-> Px(e'.clientX - rect.left),
                                top  |-> Px(e'.clientY - rect.top)]]_vars

\* the pointer left the track in the middle of a drag
C6_Witness ==
    /\ e.type = "mouseleave"
    /\ dragging
    /\ ~AtCenter
    /\ active # "none"

\* C7 (as stated): the active direction is the direction mapping applied to
\* the normalized displacement of the handle, centerOffset / radius.
C7_FunctionOfHandle ==
    active = simulateKeypress(Ratio(centerOffset.x, joystickRadius),
                              Ratio(centerOffset.y, joystickRadius))

\* C7 (amended): exactly one of up, down, left, right, none is active; it is
\* none while not dragging, after a handled move it is the direction mapping
\* applied to the normalized unclamped displacement of the pointer, and it is
\* the mapping of the handle's displacement when the pointer was within the
\* track.
C7_FunctionOfPointer ==
    /\ active \in Directions \cup {"none"}
    /\ ~dragging => active = "none"
    /\ Moved =>
         active = simulateKeypress(Ratio(RawX - joystickRadius, joystickRadius),
                                   Ratio(RawY - joystickRadius, joystickRadius))
    /\ (Moved /\ DistSq(RawX, RawY) <= RadiusSq) =>
         active = simulateKeypress(Ratio(centerOffset.x, joystickRadius),
                                   Ratio(centerOffset.y, joystickRadius))

\* the handle is clamped where its own displacement maps to right, and the
\* active direction is down
C7_Witness ==
    /\ Moved
    /\ DistSq(RawX, RawY) > RadiusSq
    /\ active = "down"
    /\ simulateKeypress(Ratio(centerOffset.x, joystickRadius),
                        Ratio(centerOffset.y, joystickRadius)) = "right"

\* C8: the direction passed to the mapping is the unclamped ratio
\* (x - radius)/radius, (y - radius)/radius; for a move outside the track the
\* handle is clamped yet the test uses the raw ratio (radius 100, raw
\* (300,100): handle (200,100), ratio 2.0, right).
C8_DirectionFromRawPointer ==
    Moved =>
        /\ Eq(direction.X, RawX - joystickRadius, joystickRadius)
        /\ Eq(direction.Y, RawY - joystickRadius, joystickRadius)
        /\ DistSq(RawX, RawY) > RadiusSq
             => /\ Abs(centerOffset.x) <= joystickRadius
                /\ Abs(centerOffset.y) <= joystickRadius
                /\ DistSq(UsedPx(handle.left), UsedPx(handle.top))
                     > (joystickRadius - 1) * (joystickRadius - 1)
        /\ (joystickRadius = 100 /\ RawX = 300 /\ RawY = 100)
             => /\ handle = [left |-> Px(200), top |-> Px(100)]
                /\ Eq(direction.X, 2, 1)
                /\ EmittedOnly(PressOf("right"))

\* raw (300,100): the handle is at (200,100) and right was emitted
C8_Witness ==
    /\ Moved
    /\ RawX = 300 /\ RawY = 100
    /\ handle = [left |-> Px(200), top |-> Px(100)]
    /\ Eq(direction.X, 2, 1)
    /\ EmittedOnly(PressOf("right"))

\* C9: the threshold tests are strict: a handled move whose direction is
\* exactly -0.2 or 0.2 on an axis does not match that axis's test
\* (directionY = -0.2 with |directionX| <= 0.2 releases), and directionY =
\* -0.21 emits up.
C9_StrictThresholds ==
    Moved =>
        /\ Eq(direction.Y, -2, 10) => ~EmittedOnly(PressOf("up"))
        /\ Eq(direction.Y, 2, 10) => ~EmittedOnly(PressOf("down"))
        /\ Eq(direction.X, -2, 10) => ~EmittedOnly(PressOf("left"))
        /\ Eq(direction.X, 2, 10) => ~EmittedOnly(PressOf("right"))
        /\ (Eq(direction.Y, -2, 10) /\ ~Lt(direction.X, -2, 10)
              /\ ~Gt(direction.X, 2, 10))
             => EmittedOnly(TheRelease)
        /\ Eq(direction.Y, -21, 100) => EmittedOnly(PressOf("up"))

\* directionY is exactly -0.2, directionX is 0, and the move released
C9_Witness ==
    /\ Moved
    /\ Eq(direction.Y, -2, 10)
    /\ Eq(direction.X, 0, 1)
    /\ EmittedOnly(TheRelease)

\* C10: after a handled move whose raw point (x, y) is at distance <= radius
\* from the track center, the handle position is (x, y) exactly.
C10_InsideIsExact ==
    (Moved /\ DistSq(RawX, RawY) <= RadiusSq)
        => handle = [left |-> Px(RawX), top |-> Px(RawY)]

\* a move to a point on the boundary circle, off the center
C10_Witness ==
    /\ Moved
    /\ DistSq(RawX, RawY) = RadiusSq
    /\ handle = [left |-> Px(RawX), top |-> Px(RawY)]
    /\ ~AtCenter

\* the displacement of the raw point of the most recent move from the center
RawDX == RawX - joystickRadius
RawDY == RawY - joystickRadius

HandleMagSq == centerOffset.x * centerOffset.x + centerOffset.y * centerOffset.y

CountOf(cs, fn) == Len(SelectSeq(cs, LAMBDA c : c.fn = fn))

\* every call of a function in fns comes before every call of one in gns
AllBefore(cs, fns, gns) ==
    \A i, j \in 1..Len(cs) : (cs[i].fn \in fns /\ cs[j].fn \in gns) => i < j

\* the arrow key named after a direction
ArrowKey == [up |-> "ArrowUp", down |-> "ArrowDown",
             left |-> "ArrowLeft", right |-> "ArrowRight"]

PressHandlers == {"pressKeyFunction", "document.dispatchEvent"}

\* C12: a press of direction d calls, in this order and each at most once,
\* beforePressKey(d) if supplied, then exactly one of pressKeyFunction(d) (if
\* supplied) or the dispatch of one key-down of the arrow key of d (never
\* both), then afterPressKey(d) if supplied.
C12_PressOrder ==
    \A d \in Directions :
        EmittedOnly(PressOf(d)) =>
            /\ CountOf(calls, "beforePressKey")
                 = (IF options.beforePressKey THEN 1 ELSE 0)
            /\ CountOf(calls, "afterPressKey")
                 = (IF options.afterPressKey THEN 1 ELSE 0)
            /\ CountOf(calls, "pressKeyFunction")
                 = (IF options.pressKeyFunction THEN 1 ELSE 0)
            /\ CountOf(calls, "document.dispatchEvent")
                 = (IF options.pressKeyFunction THEN 0 ELSE 1)
            /\ \A i \in 1..Len(calls) :
                 /\ calls[i].fn \in {"beforePressKey", "pressKeyFunction",
                                     "afterPressKey"} => calls[i].arg = <<d>>
                 /\ calls[i].fn = "document.dispatchEvent"
                      => /\ calls[i].arg[1] = "keydown"
                         /\ calls[i].arg[2] = ArrowKey[d]
            /\ AllBefore(calls, {"beforePressKey"}, PressHandlers)
            /\ AllBefore(calls, PressHandlers, {"afterPressKey"})
            /\ AllBefore(calls, {"beforePressKey"}, {"afterPressKey"})

\* a press went through both hooks and the built-in key-down between them
C12_Witness ==
    /\ EmittedOnly(PressOf("left"))
    /\ options.beforePressKey /\ options.afterPressKey
    /\ ~options.pressKeyFunction
    /\ CountOf(calls, "document.dispatchEvent") = 1

\* C13: a release calls, in this order, beforeReleaseKeys, releaseKeysFunction
\* and afterReleaseKeys, each if supplied, and dispatches no key event; the
\* only key events ever dispatched are key-downs, never a key-up.
C13_ReleaseOrder ==
    /\ EmittedOnly(TheRelease) =>
         /\ CountOf(calls, "beforeReleaseKeys")
              = (IF options.beforeReleaseKeys THEN 1 ELSE 0)
         /\ CountOf(calls, "releaseKeysFunction")
              = (IF options.releaseKeysFunction THEN 1 ELSE 0)
         /\ CountOf(calls, "afterReleaseKeys")
              = (IF options.afterReleaseKeys THEN 1 ELSE 0)
         /\ CountOf(calls, "document.dispatchEvent") = 0
         /\ AllBefore(calls, {"beforeReleaseKeys"},
                      {"releaseKeysFunction", "afterReleaseKeys"})
         /\ AllBefore(calls, {"releaseKeysFunction"}, {"afterReleaseKeys"})
    /\ \A i \in 1..Len(calls) :
         calls[i].fn = "document.dispatchEvent" => calls[i].arg[1] = "keydown"

\* with nothing but hooks configured, a move while dragging released through
\* the two hooks alone
C13_Witness ==
    /\ EmittedOnly(TheRelease)
    /\ e.type = "mousemove"
    /\ streak = 1
    /\ options.beforeReleaseKeys /\ options.afterReleaseKeys
    /\ ~options.releaseKeysFunction /\ ~options.pressKeyFunction
    /\ calls = <<TheRelease, Call("beforeReleaseKeys", <<>>),
                 Call("afterReleaseKeys", <<>>)>>

\* C14: when the parentElement selector resolves to no element, the
\* constructor throws instead of failing silently, and the failed instance
\* has no listener registered: no pointer event ever reaches it.
C14_MissingMountRaises ==
    querySelector(options.parentElement) = "null"
        => /\ thrown = "TypeError"
           /\ listeners = {}
           /\ e.type = "construct"
           /\ ~dragging
           /\ calls = <<>>

\* a construction with a selector that matches nothing has thrown
C14_Witness ==
    /\ options.parentElement \notin PageSelectors
    /\ thrown # ""
    /\ listeners = {}

\* C15: with enableDebug false no press or release produces a log record;
\* with enableDebug true every press and every release produces exactly one,
\* naming the action.
C15_DebugLogging ==
    /\ ~options.enableDebug => CountOf(calls, "console.log") = 0
    /\ options.enableDebug =>
         /\ CountOf(calls, "console.log") = Len(SignalsIn(calls))
         /\ \A d \in Directions :
              EmittedOnly(PressOf(d)) =>
                  \E i \in 1..Len(calls) :
                      calls[i] = Call("console.log", <<"Pressing the key: ", d>>)
         /\ EmittedOnly(TheRelease) =>
              \E i \in 1..Len(calls) :
                  calls[i] = Call("console.log", <<"Releasing all keys">>)

\* without enableDebug, a drag was released and nothing was logged
C15_Witness ==
    /\ ~options.enableDebug
    /\ e.type = "mouseup"
    /\ EmittedOnly(TheRelease)
    /\ CountOf(calls, "console.log") = 0

\* C16: there is no edge detection: every move handled while dragging emits
\* its signal whatever was emitted before, so a move in the direction that is
\* already active emits another press, a move within the thresholds emits a
\* release also when nothing is pressed, and the count of consecutive
\* emissions of a signal grows with every such move.
C16_NoEdgeDetection ==
    [][(dragging /\ e'.type \in MoveTypes) =>
         /\ \A d \in Directions :
              active' = d => SignalsIn(calls') = <<PressOf(d)>>
         /\ active' = "none" => SignalsIn(calls') = <<TheRelease>>
         /\ (active' = active /\ streak > 0 /\ streak < MaxStreak)
              => streak' = streak + 1
         /\ active' # active => streak' = 1]_vars

\* a second press in a row of the same direction has been emitted
C16_Witness ==
    /\ Moved
    /\ active = "right"
    /\ streak >= 2
    /\ EmittedOnly(PressOf("right"))

\* C17: with two instances on the page, a mouse-up or touch-end sets dragging
\* false and emits a release on both, dragged or not, and a mouse-move or
\* touch-move changes the handle and emits a signal on exactly the instances
\* whose dragging flag is true.
C17_BothInstancesReceive ==
    [][second.present =>
         /\ e'.type \in {"mouseup", "touchend"} =>
              /\ ~dragging' /\ ~second'.dragging
              /\ SignalsIn(calls') = <<TheRelease>>
              /\ SignalsIn(second'.calls) = <<TheRelease>>
              /\ handle' = [left |-> FiftyPercent, top |-> FiftyPercent]
              /\ second'.handle = [left |-> FiftyPercent, top |-> FiftyPercent]
         /\ e'.type \in MoveTypes =>
              /\ dragging' = dragging /\ second'.dragging = second.dragging
              /\ dragging => Len(SignalsIn(calls')) = 1
              /\ ~dragging => (handle' = handle /\ SignalsIn(calls') = <<>>)
              /\ second.dragging => Len(SignalsIn(second'.calls)) = 1
              /\ ~second.dragging =>
                   (second'.handle = second.handle
                      /\ SignalsIn(second'.calls) = <<>>)
              /\ (dragging /\ second.dragging
                    /\ DistSq(e'.clientX - rect2.left, e'.clientY - rect2.top)
                         <= RadiusSq)
                   => second'.handle = [left |-> Px(e'.clientX - rect2.left),
                                        top  |-> Px(e'.clientY - rect2.top)]]_vars

\* one mouse-up released both instances
C17_Witness ==
    /\ second.present
    /\ e.type = "mouseup"
    /\ ~dragging /\ ~second.dragging
    /\ SignalsIn(calls) = <<TheRelease>>
    /\ SignalsIn(second.calls) = <<TheRelease>>

\* C18: a pointer-cancel is consumed like a pointer-up: a cancel that arrives
\* while dragging ends the drag, so the joystick is never left with dragging
\* true after the pointer was cancelled.
C18_CancelEndsDrag == e.type = "touchcancel" => ~dragging

\* the calls of a press: pressKey itself, its hooks, the custom function and
\* the synthesized key-down
PressFns ==
    {"pressKey", "beforePressKey", "pressKeyFunction", "afterPressKey",
     "document.dispatchEvent"}

PressActivity(cs) == \E i \in 1..Len(cs) : cs[i].fn \in PressFns

\* C19: a press is emitted only while dragging is true: every event that
\* emits one (hook, handler or synthesized key-down) is a move that arrives
\* while dragging, after a pointer-down and before the next pointer-up, and
\* leaves the drag on; no event emits one while dragging is false.
C19_PressOnlyWhileDragging ==
    [][PressActivity(calls')
         => /\ dragging
            /\ dragging'
            /\ e'.type \in MoveTypes
            /\ e.type \notin {"construct", "mouseup", "touchend"}]_vars

\* a touch-move in the middle of a drag pressed a key
C19_Witness ==
    /\ dragging
    /\ e.type = "touchmove"
    /\ direction.called
    /\ PressActivity(calls)
    /\ EmittedOnly(PressOf("down"))

\* the step has a counterpart by the action A from the same state that ends
\* with the same dragging flag, handle position, active direction and
\* emitted signals
SameOutcomeBy(A) ==
    \E d \in {dragging'}, h \in {handle'}, a \in {active'},
       sg \in {SignalsIn(calls')} :
        ENABLED (A /\ dragging' = d /\ handle' = h /\ active' = a
                   /\ SignalsIn(calls') = sg)

\* C20: mouse and touch drive the same state machine: every touch-start,
\* touch-move and touch-end has the outcome the mouse-down, the mouse-move at
\* the first touch's coordinates and the mouse-up have from the same state,
\* and conversely; a drag started by one kind is ended by the up/end of the
\* other.
C20_MouseTouchEquivalent ==
    [][/\ e'.type = "touchstart" => SameOutcomeBy(handleMouseDown)
       /\ e'.type = "mousedown" => SameOutcomeBy(handleTouchStart)
       /\ e'.type = "touchend" => SameOutcomeBy(handleMouseUp)
       /\ e'.type = "mouseup" => SameOutcomeBy(handleTouchEnd)
       /\ e'.type = "touchmove" =>
            \E cx \in {e'.clientX}, cy \in {e'.clientY} :
                SameOutcomeBy(MouseMoveAt(cx, cy))
       /\ e'.type = "mousemove" =>
            \E cx \in {e'.clientX}, cy \in {e'.clientY} :
                SameOutcomeBy(TouchMoveAt(cx, cy, 1))
       /\ ((e.type = "touchstart" /\ e'.type = "mouseup")
             \/ (e.type = "mousedown" /\ e'.type = "touchend"))
            => (dragging /\ ~dragging')]_vars

\* a mouse-move in the middle of a drag pressed a key
C20_Witness ==
    /\ dragging
    /\ e.type = "mousemove"
    /\ direction.called
    /\ \E i \in 1..Len(calls) : calls[i].fn = "pressKey"

====
